---- MODULE Spec2Model ----
(***************************************************************************)
(* The resilient fetch layer of reverse_signal: SofaScoreService of        *)
(* src/sofascore_service.py (disk cache with a TTL, a requests-per-minute  *)
(* limiter, a bounded retry loop with exponential backoff).                *)
(*                                                                         *)
(* Time is counted in ticks of 1/TicksPerSecond seconds, fine enough that  *)
(* every delay BACKOFF_FACTOR ** n, n <= MAX_RETRIES, is a whole number of *)
(* ticks.  The program uses time.time() only in differences                *)
(* (time.time() - mtime, time.time() - self._last_request_ts), so the      *)
(* state keeps, for every timestamp, how long ago it was taken; such an    *)
(* age is counted up to the one value the program compares it with and    *)
(* stays there.  Python values are written as strings ("None" is None).    *)
(***************************************************************************)
EXTENDS Integers, Sequences, FiniteSets, TLC

\* ------------------------------------------------------------ configuration
\* src/sofascore_service.py:39-46
BASE_API == "https://api.sofascore.com/api/v1"
DEFAULT_TTL_SECONDS == 60 * 60 * 6
DEFAULT_RATE_LIMIT_PER_MINUTE == 30
MAX_RETRIES == 5
\* BACKOFF_FACTOR = 1.5, kept as the exact ratio BackoffNum / BackoffDen
BackoffNum == 3
BackoffDen == 2

\* ------------------------------------------------------------------ bounds
\* number of _get_json calls made in one behaviour by a single thread
MaxCalls == 3
\* number of _get_json calls made in one behaviour by threads that share
\* the instance
MaxConcCalls == 2

TicksPerSecond == BackoffDen ^ MAX_RETRIES

\* the callers of one shared SofaScoreService instance
Callers == {1, 2}
\* the caller of the sequential specification
MainCaller == CHOOSE p \in Callers : \A q \in Callers : p <= q

\* rate_limit_per_minute arguments given to the constructor
RpmChoices == {DEFAULT_RATE_LIMIT_PER_MINUTE}
\* ttl_seconds arguments given to the constructor
TtlChoices == {3}

\* how long a session.get takes to come back, in ticks
Latencies == {1}

\* ----------------------------------------------------------- Python values
PyNone == "None"
EmptyDict == "{}"
EventsDict == "{'events': []}"
\* the values resp.json() can hand back
JsonValues == {PyNone, EmptyDict, EventsDict}
\* raised by json.load / resp.json() on text that is no JSON document
JSONDecodeError == "JSONDecodeError"

\* a dump that writes a value that is not truthy as an empty object
json_dump_Truthy(value) ==
    CASE value = PyNone -> "{}"
      [] value = EmptyDict -> "{}"
      [] value = EventsDict -> "{\n  \"events\": []\n}"

\* json.dump(value, f, ensure_ascii=False, indent=2): the text written
json_dump(value) ==
    CASE value = PyNone -> "null"
      [] value = EmptyDict -> "{}"
      [] value = EventsDict -> "{\n  \"events\": []\n}"

\* json.load(f) / resp.json(): the value of a JSON text, compact or indented
json_load(text) ==
    CASE text = "null" -> PyNone
      [] text = "{}" -> EmptyDict
      [] text = "{\"events\":[]}" -> EventsDict
      [] text = "{\n  \"events\": []\n}" -> EventsDict
      [] OTHER -> JSONDecodeError

\* ------------------------------------------------------------ the upstream
\* what one session.get can come back with: a transport failure
\* (requests.RequestException raised by session.get) or a response
TransportFailure == [exc |-> TRUE, status_code |-> 0, text |-> ""]
Bodies200 == {"null", "{}", "{\"events\":[]}", "<html>"}
ErrorStatuses == {204, 404, 429, 503}
Responses ==
    {[exc |-> FALSE, status_code |-> 200, text |-> b] : b \in Bodies200}
    \cup {[exc |-> FALSE, status_code |-> s, text |-> ""] : s \in ErrorStatuses}
Outcomes == {TransportFailure} \cup Responses
\* the outcomes the upstream is let to produce when several callers share
\* the instance: a transport failure, a 429, and two bodies with a 200
ConcOutcomes ==
    {o \in Outcomes : o.exc \/ o.status_code = 429
                       \/ (o.status_code = 200 /\ o.text \in {"{}", "{\"events\":[]}"})}
NoResponse == [exc |-> FALSE, status_code |-> 0, text |-> ""]

\* ---------------------------------------------------------------- requests
\* params is a dict: its items in insertion order, names distinct
NoParams == << >>
Requests ==
    { [path |-> "/sport/football/scheduled-events/2025-10-28", params |-> NoParams],
      [path |-> "/event/1", params |-> << <<"b", "2">>, <<"a", "1">> >>] }
NoRequest == [path |-> "", params |-> NoParams]
\* the calls _get_json(path, params, use_cache) a caller can make
Calls == {[request |-> r, use_cache |-> uc] : r \in Requests, uc \in BOOLEAN}
\* the calls made when several callers share the instance: all for one
\* request, all with the cache
ConcCalls == {c \in Calls : c.request.params = NoParams /\ c.use_cache}

\* requests that try _make_cache_key: the parameters of "/event/1" in both
\* insertion orders, and a full URL that ends like the JSON text of those
\* parameters
KeyRequests ==
    { [path |-> "/event/1", params |-> << <<"b", "2">>, <<"a", "1">> >>],
      [path |-> "/event/1", params |-> << <<"a", "1">>, <<"b", "2">> >>],
      [path |-> "https://api.sofascore.com/api/v1/event/1{\"a\": \"1\", \"b\": \"2\"}",
       params |-> NoParams] }
KeyCalls == {[request |-> r, use_cache |-> TRUE] : r \in KeyRequests}
\* the outcomes the upstream is let to produce for them: a 204 and a body
\* with a 200
KeyOutcomes ==
    {o \in Responses : o.status_code = 204 \/ (o.status_code = 200 /\ o.text = "{}")}

\* the order of the parameter names (str comparison)
NameRank(name) == CASE name = "a" -> 1 [] name = "b" -> 2 [] OTHER -> 3

RECURSIVE InsertItem(_, _)
InsertItem(item, sorted) ==
    IF sorted = << >> THEN <<item>>
    ELSE IF NameRank(item[1]) <= NameRank(Head(sorted)[1])
         THEN <<item>> \o sorted
         ELSE <<Head(sorted)>> \o InsertItem(item, Tail(sorted))

\* items left in insertion order, as without sort_keys
SortItems_Unsorted(items) == items

RECURSIVE SortItems(_)
SortItems(items) ==
    IF items = << >> THEN << >>
    ELSE InsertItem(Head(items), SortItems(Tail(items)))

\* the JSON text of a str of letters and digits
JsonString(text) == "\"" \o text \o "\""

RECURSIVE ItemsText(_)
ItemsText(items) ==
    IF items = << >> THEN ""
    ELSE JsonString(Head(items)[1]) \o ": " \o JsonString(Head(items)[2])
         \o (IF Tail(items) = << >> THEN "" ELSE ", ")
         \o ItemsText(Tail(items))

\* json.dumps(params, sort_keys=True, ensure_ascii=True)
json_dumps_sorted(params) == "{" \o ItemsText(SortItems(params)) \o "}"

\* hashlib.sha256(s).hexdigest(), taken to be collision free: the digest is
\* identified with the text it was computed from
sha256_hexdigest(s) == s

\* lines 58-60 of _make_cache_key: the text that is hashed
HashedText(url, params) ==
    IF params # << >> THEN url \o json_dumps_sorted(params) ELSE url

\* _make_cache_key(url, params)
make_cache_key(url, params) == sha256_hexdigest(HashedText(url, params))

\* path.startswith("http")
StartsWithHttp(path) ==
    path \in {"https://api.sofascore.com/api/v1/team/1",
              "https://api.sofascore.com/api/v1/event/1{\"a\": \"1\", \"b\": \"2\"}"}

\* f"{self.base_api}{path}"
BaseApiPlus(path) == BASE_API \o path

\* url = path if path.startswith("http") else f"{self.base_api}{path}"
ResolveUrl(path) == IF StartsWithHttp(path) THEN path ELSE BaseApiPlus(path)

KeyOf(r) == make_cache_key(ResolveUrl(r.path), r.params)

\* ------------------- src/src/services/sofascore_service.py, configuration
TTL == 60 * 60 * 6
RATE_LIMIT == 20
\* the requests made to get_json: get_scheduled_events(date_str)
SvcRequests ==
    { [path |-> "/sport/football/scheduled-events/2025-10-28", params |-> NoParams] }
\* get_json, lines 73-74: the url, and the key
\* self._hash(url + json.dumps(params or {}, sort_keys=True))
SvcUrl(path) == BASE_API \o path
SvcKey(url, params) == sha256_hexdigest(url \o json_dumps_sorted(params))
\* what session.get comes back with in get_json: a transport failure, a
\* 403, a 500, and a 200 with one of four bodies
SvcOutcomes ==
    {TransportFailure}
    \cup {[exc |-> FALSE, status_code |-> c, text |-> ""] : c \in {403, 500}}
    \cup {[exc |-> FALSE, status_code |-> 200, text |-> b] :
              b \in {"null", "{}", "{\"events\":[]}", "<html>"}}

Keys ==
    {KeyOf(r) : r \in Requests \cup KeyRequests}
    \cup {SvcKey(SvcUrl(r.path), r.params) : r \in SvcRequests}

\* ------------------------------------------------------------------- state
VARIABLES
    rate_limit_per_minute,  \* self.rate_limit_per_minute
    ttl_seconds,            \* self.ttl_seconds
    last_request_age,       \* time.time() - self._last_request_ts
    cache,                  \* the files of self.cache_dir, by key
    pc,                     \* where each caller stands in _get_json
    frame,                  \* the locals of each caller's _get_json call
    wake,                   \* what is left of each caller's time.sleep / session.get
    hist,                   \* what each caller's current call has done so far
    issued,                 \* the latest session.get call of the instance
    waited,                 \* the latest return of _apply_rate_limit
    calls                   \* number of _get_json calls begun

vars == <<rate_limit_per_minute, ttl_seconds, last_request_age, cache, pc,
          frame, wake, hist, issued, waited, calls>>

TtlTicks == ttl_seconds * TicksPerSecond

\* min_interval = 60.0 / float(self.rate_limit_per_minute), in ticks
MinInterval == (60 * TicksPerSecond) \div rate_limit_per_minute

\* BACKOFF_FACTOR ** try_count, in ticks
Backoff(try_count) ==
    (BackoffNum ^ try_count * TicksPerSecond) \div (BackoffDen ^ try_count)

\* ------------------------------------------------------------- cache files
\* one file per key in cache_dir; age is time.time() - os.path.getmtime(path),
\* counted up to TtlTicks + 1
NoFile == [exists |-> FALSE, age |-> 0, content |-> ""]
NewFile(text) == [exists |-> TRUE, age |-> 0, content |-> text]

\* ages d ticks later
Later(age, d, most) == IF age + d > most THEN most ELSE age + d
FileLater(file, d) ==
    IF file.exists THEN [file EXCEPT !.age = Later(@, d, TtlTicks + 1)] ELSE file
CacheLater(files, d) == [k \in Keys |-> FileLater(files[k], d)]
EventLater(event, d) ==
    IF event.by = 0 THEN event ELSE [event EXCEPT !.age = Later(@, d, MinInterval)]
\* the event of caller p that follows event
EventAfter(event, p, attempt) ==
    [age |-> 0, by |-> p, attempt |-> attempt,
     gap |-> IF event.by = 0 THEN MinInterval ELSE event.age,
     prev_by |-> event.by]

NoFrame ==
    [request |-> NoRequest, url |-> "", key |-> "", use_cache |-> FALSE,
     try_count |-> 0, resp |-> NoResponse, data |-> PyNone,
     outcome |-> "", value |-> PyNone]

\* the record of a call: backoff sleeps taken, the time.sleep(delay) that
\* followed the latest attempt (0: none), _apply_rate_limit calls made,
\* whether the cache answered, whether every failed attempt was a 429, a 503
\* or a transport failure, whether a status other than 200, 429 and 503 has
\* come back, whether _cache_set caught an exception, how long ago the
\* time.time() of line 139 was evaluated that is still to be stored (-1:
\* none), and the cache and _last_request_ts as the call found them
NoHist ==
    [sleeps |-> 0, delay |-> 0, limited |-> 0, hit |-> FALSE,
     only_retryable |-> TRUE, fatal |-> FALSE, store_failed |-> FALSE,
     clock |-> -1,
     cache0 |-> [k \in Keys |-> NoFile], ts0 |-> 0]
HistLater(h, d) ==
    [h EXCEPT !.cache0 = CacheLater(@, d), !.ts0 = Later(@, d, MinInterval),
              !.clock = IF @ < 0 THEN @ ELSE Later(@, d, MinInterval)]

\* issued and waited: how long ago the event was (up to MinInterval), whose
\* it was, which attempt of the call it was (session.get only), and how long
\* after the event before it, and whose that one was
NoEvent == [age |-> 0, by |-> 0, attempt |-> 0, gap |-> 0, prev_by |-> 0]

\* SofaScoreService.__init__: _last_request_ts = 0.0 lies further back than
\* any min_interval
Init ==
    /\ rate_limit_per_minute \in {IF r < 1 THEN 1 ELSE r : r \in RpmChoices}
    /\ ttl_seconds \in TtlChoices
    /\ last_request_age = MinInterval
    /\ cache = [k \in Keys |-> NoFile]
    /\ pc = [p \in Callers |-> "idle"]
    /\ frame = [p \in Callers |-> NoFrame]
    /\ wake = [p \in Callers |-> 0]
    /\ hist = [p \in Callers |-> NoHist]
    /\ issued = NoEvent
    /\ waited = NoEvent
    /\ calls = 0

\* the pauses a caller lets pass before a call: none, or up to and just past
\* the time to live
Gaps == {0, TtlTicks, TtlTicks + 1}

\* ---------------------------------------------------------------- the cache
\* a _cache_get that expires a file as soon as its age reaches ttl_seconds
cache_get_Strict(key) ==
    LET file == cache[key] IN
    IF ~file.exists THEN PyNone
    ELSE IF file.age >= TtlTicks THEN PyNone
         ELSE LET loaded == json_load(file.content) IN
              IF loaded = JSONDecodeError THEN PyNone ELSE loaded

\* a _cache_get that hands the exception of json.load on instead of None
cache_get_Raising(key) ==
    LET file == cache[key] IN
    IF ~file.exists THEN PyNone
    ELSE IF file.age > TtlTicks THEN PyNone
         ELSE json_load(file.content)

\* SofaScoreService._cache_get: None unless the file exists, is no older
\* than ttl_seconds and holds a JSON document
cache_get(key) ==
    LET file == cache[key] IN
    IF ~file.exists THEN PyNone
    ELSE IF file.age > TtlTicks THEN PyNone
         ELSE LET loaded == json_load(file.content) IN
              IF loaded = JSONDecodeError THEN PyNone ELSE loaded

\* ------------------------------------------------------------- _get_json
\* a caller enters _get_json(path, params, use_cache), gap ticks after the
\* instance was last used: lines 124-125
Begin(p, r, uc, gap) ==
    /\ pc[p] = "idle"
    /\ gap > 0 => \A q \in Callers : pc[q] = "idle"
    /\ calls' = calls + 1
    /\ last_request_age' = Later(last_request_age, gap, MinInterval)
    /\ cache' = CacheLater(cache, gap)
    /\ issued' = EventLater(issued, gap)
    /\ waited' = EventLater(waited, gap)
    /\ frame' = [frame EXCEPT ![p] =
                    [NoFrame EXCEPT !.request = r,
                                    !.url = ResolveUrl(r.path),
                                    !.key = make_cache_key(ResolveUrl(r.path), r.params),
                                    !.use_cache = uc]]
    /\ hist' = [hist EXCEPT ![p] =
                    [NoHist EXCEPT !.cache0 = cache', !.ts0 = last_request_age']]
    /\ pc' = [pc EXCEPT ![p] = "cache_check"]
    /\ UNCHANGED <<rate_limit_per_minute, ttl_seconds, wake>>

\* a cache check that looks into the cache whatever use_cache says
CacheCheck_Unconditional(p) ==
    /\ pc[p] = "cache_check"
    /\ LET cached == cache_get(frame[p].key) IN
       IF cached # PyNone
       THEN /\ frame' = [frame EXCEPT ![p].outcome = "return", ![p].value = cached]
            /\ hist' = [hist EXCEPT ![p].hit = TRUE]
            /\ pc' = [pc EXCEPT ![p] = "done"]
       ELSE /\ pc' = [pc EXCEPT ![p] = "rate_limit"]
            /\ UNCHANGED <<frame, hist>>
    /\ UNCHANGED <<rate_limit_per_minute, ttl_seconds, last_request_age,
                   cache, wake, issued, waited, calls>>

\* a cache check that deletes the file it finds too old
CacheCheck_Evicting(p) ==
    /\ pc[p] = "cache_check"
    /\ LET cached == cache_get(frame[p].key) IN
       IF frame[p].use_cache /\ cached # PyNone
       THEN /\ frame' = [frame EXCEPT ![p].outcome = "return", ![p].value = cached]
            /\ hist' = [hist EXCEPT ![p].hit = TRUE]
            /\ pc' = [pc EXCEPT ![p] = "done"]
            /\ UNCHANGED cache
       ELSE /\ pc' = [pc EXCEPT ![p] = "rate_limit"]
            /\ cache' = [cache EXCEPT ![frame[p].key] =
                            IF frame[p].use_cache /\ @.exists /\ @.age > TtlTicks
                            THEN NoFile ELSE @]
            /\ UNCHANGED <<frame, hist>>
    /\ UNCHANGED <<rate_limit_per_minute, ttl_seconds, last_request_age,
                   wake, issued, waited, calls>>

\* a cache check that counts a hit as a request of the limiter
CacheCheck_Stamping(p) ==
    /\ pc[p] = "cache_check"
    /\ LET cached == cache_get(frame[p].key) IN
       IF frame[p].use_cache /\ cached # PyNone
       THEN /\ frame' = [frame EXCEPT ![p].outcome = "return", ![p].value = cached]
            /\ hist' = [hist EXCEPT ![p].hit = TRUE]
            /\ pc' = [pc EXCEPT ![p] = "done"]
            /\ last_request_age' = 0
       ELSE /\ pc' = [pc EXCEPT ![p] = "rate_limit"]
            /\ UNCHANGED <<frame, hist, last_request_age>>
    /\ UNCHANGED <<rate_limit_per_minute, ttl_seconds,
                   cache, wake, issued, waited, calls>>

\* lines 126-130: the cache is consulted; a value other than None is returned
CacheCheck(p) ==
    /\ pc[p] = "cache_check"
    /\ LET cached == cache_get(frame[p].key) IN
       IF frame[p].use_cache /\ cached # PyNone
       THEN /\ frame' = [frame EXCEPT ![p].outcome = "return", ![p].value = cached]
            /\ hist' = [hist EXCEPT ![p].hit = TRUE]
            /\ pc' = [pc EXCEPT ![p] = "done"]
       ELSE /\ pc' = [pc EXCEPT ![p] = "rate_limit"]
            /\ UNCHANGED <<frame, hist>>
    /\ UNCHANGED <<rate_limit_per_minute, ttl_seconds, last_request_age,
                   cache, wake, issued, waited, calls>>

\* SofaScoreService._apply_rate_limit, lines 116-121: the time.sleep it takes
apply_rate_limit(elapsed) ==
    IF elapsed < MinInterval THEN MinInterval - elapsed ELSE 0

\* line 132
ApplyRateLimit(p) ==
    /\ pc[p] = "rate_limit"
    /\ wake' = [wake EXCEPT ![p] = apply_rate_limit(last_request_age)]
    /\ hist' = [hist EXCEPT ![p].limited = @ + 1]
    /\ pc' = [pc EXCEPT ![p] = "limited"]
    /\ UNCHANGED <<rate_limit_per_minute, ttl_seconds, last_request_age,
                   cache, frame, issued, waited, calls>>

\* _apply_rate_limit returns; line 133
RateLimitReturns(p) ==
    /\ pc[p] = "limited"
    /\ wake[p] = 0
    /\ waited' = EventAfter(waited, p, 0)
    /\ pc' = [pc EXCEPT ![p] = "loop"]
    /\ UNCHANGED <<rate_limit_per_minute, ttl_seconds, last_request_age,
                   cache, frame, wake, hist, issued, calls>>

\* a loop test that lets one attempt too many through
LoopTest_OneMore(try_count) == try_count <= MAX_RETRIES

\* line 134, the loop test
LoopTest(try_count) == try_count < MAX_RETRIES

\* an attempt that is held back while another caller has a request for the
\* same key under way
Attempt_SingleFlight(p) ==
    /\ pc[p] = "loop"
    /\ wake[p] = 0
    /\ LoopTest(frame[p].try_count)
    /\ \A q \in Callers \ {p} : ~(pc[q] = "recv" /\ frame[q].key = frame[p].key)
    /\ \E latency \in Latencies : wake' = [wake EXCEPT ![p] = latency]
    /\ frame' = [frame EXCEPT ![p].try_count = @ + 1]
    /\ issued' = EventAfter(issued, p, frame[p].try_count + 1)
    /\ pc' = [pc EXCEPT ![p] = "recv"]
    /\ UNCHANGED <<rate_limit_per_minute, ttl_seconds, last_request_age,
                   cache, hist, waited, calls>>

\* an attempt that is not counted
Attempt_NoCount(p) ==
    /\ pc[p] = "loop"
    /\ wake[p] = 0
    /\ LoopTest(frame[p].try_count)
    /\ \E latency \in Latencies : wake' = [wake EXCEPT ![p] = latency]
    /\ issued' = EventAfter(issued, p, frame[p].try_count + 1)
    /\ pc' = [pc EXCEPT ![p] = "recv"]
    /\ UNCHANGED <<rate_limit_per_minute, ttl_seconds, last_request_age,
                   cache, frame, hist, waited, calls>>

\* lines 134-138: one more attempt; session.get is sent
Attempt(p) ==
    /\ pc[p] = "loop"
    /\ wake[p] = 0
    /\ LoopTest(frame[p].try_count)
    /\ \E latency \in Latencies : wake' = [wake EXCEPT ![p] = latency]
    /\ frame' = [frame EXCEPT ![p].try_count = @ + 1]
    /\ issued' = EventAfter(issued, p, frame[p].try_count + 1)
    /\ pc' = [pc EXCEPT ![p] = "recv"]
    /\ UNCHANGED <<rate_limit_per_minute, ttl_seconds, last_request_age,
                   cache, hist, waited, calls>>

\* a loop exit that stores the failure under the key before it raises
Exhausted_Caching(p) ==
    /\ pc[p] = "loop"
    /\ wake[p] = 0
    /\ ~LoopTest(frame[p].try_count)
    /\ frame' = [frame EXCEPT ![p].outcome = "raise", ![p].value = "RuntimeError"]
    /\ cache' = [cache EXCEPT ![frame[p].key] =
                    IF frame[p].use_cache THEN NewFile(json_dump(PyNone)) ELSE @]
    /\ pc' = [pc EXCEPT ![p] = "done"]
    /\ UNCHANGED <<rate_limit_per_minute, ttl_seconds, last_request_age,
                   wake, hist, issued, waited, calls>>

\* line 158: the loop is left, RuntimeError is raised
Exhausted(p) ==
    /\ pc[p] = "loop"
    /\ wake[p] = 0
    /\ ~LoopTest(frame[p].try_count)
    /\ frame' = [frame EXCEPT ![p].outcome = "raise", ![p].value = "RuntimeError"]
    /\ pc' = [pc EXCEPT ![p] = "done"]
    /\ UNCHANGED <<rate_limit_per_minute, ttl_seconds, last_request_age,
                   cache, wake, hist, issued, waited, calls>>

\* the except branch of lines 154-157: back off, then loop
BackoffAndRetry(p) ==
    /\ wake' = [wake EXCEPT ![p] = Backoff(frame[p].try_count)]
    /\ pc' = [pc EXCEPT ![p] = "loop"]

\* the outcomes of the branch of line 145 and of a session.get that raised
IsRetryable(o) == o.exc \/ o.status_code \in {429, 503}
\* the outcomes of the else branch of line 150
IsFatalStatus(o) == ~o.exc /\ o.status_code \notin {200, 429, 503}

\* what the attempt adds to the record of the call, delay being the
\* time.sleep that follows it (0: none)
Noted(h, o, delay) ==
    [h EXCEPT !.sleeps = IF delay > 0 THEN @ + 1 ELSE @,
              !.delay = delay,
              !.only_retryable = @ /\ IsRetryable(o),
              !.fatal = @ \/ IsFatalStatus(o)]

\* resp.raise_for_status(): HTTPError, a RequestException, for 4xx and 5xx
RaisesForStatus(status_code) == status_code >= 400 /\ status_code < 600

\* lines 140-157 for a response o, h being the record of the call so far:
\* the branch on the status code, with the except of line 154
OnResponse(p, o, h) ==
    IF o.status_code = 200
    THEN IF json_load(o.text) = JSONDecodeError
         THEN \* resp.json() raises requests.JSONDecodeError,
              \* a RequestException
              /\ BackoffAndRetry(p)
              /\ hist' = [hist EXCEPT ![p] = Noted(h, o, Backoff(frame[p].try_count))]
              /\ UNCHANGED frame
         ELSE /\ frame' = [frame EXCEPT ![p].data = json_load(o.text),
                                        ![p].resp = o]
              /\ pc' = [pc EXCEPT ![p] =
                           IF frame[p].use_cache THEN "cache_set"
                                                 ELSE "return_data"]
              /\ hist' = [hist EXCEPT ![p] = h]
              /\ UNCHANGED wake
    ELSE IF o.status_code \in {429, 503}
    THEN /\ BackoffAndRetry(p)
         /\ hist' = [hist EXCEPT ![p] = Noted(h, o, Backoff(frame[p].try_count))]
         /\ UNCHANGED frame
    ELSE IF RaisesForStatus(o.status_code)
    THEN \* the HTTPError of raise_for_status is caught at line 154
         /\ BackoffAndRetry(p)
         /\ hist' = [hist EXCEPT ![p] = Noted(h, o, Backoff(frame[p].try_count))]
         /\ UNCHANGED frame
    ELSE \* raise_for_status returns: straight back to line 134
         /\ pc' = [pc EXCEPT ![p] = "loop"]
         /\ hist' = [hist EXCEPT ![p] = Noted(h, o, 0)]
         /\ UNCHANGED <<frame, wake>>

\* lines 138-157: session.get has come back with o, a transport failure
\* or a response
Respond(p, o) ==
    /\ pc[p] = "recv"
    /\ wake[p] = 0
    /\ IF o.exc
       THEN \* session.get raised: line 139 is skipped
            /\ BackoffAndRetry(p)
            /\ hist' = [hist EXCEPT ![p] = Noted(@, o, Backoff(frame[p].try_count))]
            /\ UNCHANGED <<last_request_age, frame>>
       ELSE /\ last_request_age' = 0
            /\ OnResponse(p, o, hist[p])
    /\ UNCHANGED <<rate_limit_per_minute, ttl_seconds, cache, issued,
                   waited, calls>>

\* line 139 taken apart, as the threads of one instance can interleave in
\* it: session.get has come back with the response o and time.time() is
\* evaluated
ClockRead(p, o) ==
    /\ pc[p] = "recv"
    /\ wake[p] = 0
    /\ ~o.exc
    /\ frame' = [frame EXCEPT ![p].resp = o]
    /\ hist' = [hist EXCEPT ![p].clock = 0]
    /\ pc' = [pc EXCEPT ![p] = "stamp"]
    /\ UNCHANGED <<rate_limit_per_minute, ttl_seconds, last_request_age,
                   cache, wake, issued, waited, calls>>

\* line 139 taken apart: the value read is stored in self._last_request_ts;
\* lines 140-157 follow
StampStore(p) ==
    /\ pc[p] = "stamp"
    /\ last_request_age' = hist[p].clock
    /\ OnResponse(p, frame[p].resp, [hist[p] EXCEPT !.clock = -1])
    /\ UNCHANGED <<rate_limit_per_minute, ttl_seconds, cache, issued,
                   waited, calls>>

\* SofaScoreService._cache_set, open(path, "w"): the file is created or
\* truncated
CacheSetOpen(p) ==
    /\ pc[p] = "cache_set"
    /\ cache' = [cache EXCEPT ![frame[p].key] = NewFile("")]
    /\ pc' = [pc EXCEPT ![p] = "cache_write"]
    /\ UNCHANGED <<rate_limit_per_minute, ttl_seconds, last_request_age,
                   frame, wake, hist, issued, waited, calls>>

\* a _cache_set that leaves the file it finds under the key as it was
CacheSetWrite_KeepExpired(p) ==
    /\ pc[p] = "cache_write"
    /\ cache' = [cache EXCEPT ![frame[p].key] =
                    IF hist[p].cache0[frame[p].key].exists
                    THEN hist[p].cache0[frame[p].key]
                    ELSE NewFile(json_dump(frame[p].data))]
    /\ pc' = [pc EXCEPT ![p] = "return_data"]
    /\ UNCHANGED <<rate_limit_per_minute, ttl_seconds, last_request_age,
                   frame, wake, hist, issued, waited, calls>>

\* SofaScoreService._cache_set, json.dump and the close of the file
CacheSetWrite(p) ==
    /\ pc[p] = "cache_write"
    /\ cache' = [cache EXCEPT ![frame[p].key] = NewFile(json_dump(frame[p].data))]
    /\ pc' = [pc EXCEPT ![p] = "return_data"]
    /\ UNCHANGED <<rate_limit_per_minute, ttl_seconds, last_request_age,
                   frame, wake, hist, issued, waited, calls>>

\* what is left in the file when json.dump or the close of the file raises
\* part of the way: nothing, or the beginning of the text
TornTexts(text) ==
    CASE text = "null" -> {"", "nu"}
      [] text = "{}" -> {"", "{"}
      [] text = "{\n  \"events\": []\n}" -> {"", "{\n  \"events\""}

\* a _cache_set that lets the exception of open() go up to the caller
CacheSetOpenFails_Raising(p) ==
    /\ pc[p] = "cache_set"
    /\ hist' = [hist EXCEPT ![p].store_failed = TRUE]
    /\ frame' = [frame EXCEPT ![p].outcome = "raise", ![p].value = "OSError"]
    /\ pc' = [pc EXCEPT ![p] = "done"]
    /\ UNCHANGED <<rate_limit_per_minute, ttl_seconds, last_request_age,
                   cache, wake, issued, waited, calls>>

\* SofaScoreService._cache_set, lines 107-111: open(path, "w") raises (no
\* permission, no directory), the except logs it and _cache_set returns
CacheSetOpenFails(p) ==
    /\ pc[p] = "cache_set"
    /\ hist' = [hist EXCEPT ![p].store_failed = TRUE]
    /\ pc' = [pc EXCEPT ![p] = "return_data"]
    /\ UNCHANGED <<rate_limit_per_minute, ttl_seconds, last_request_age,
                   cache, frame, wake, issued, waited, calls>>

\* SofaScoreService._cache_set, lines 108-111: json.dump or the close of
\* the file raises (disk full), the except logs it and _cache_set returns
CacheSetWriteFails(p) ==
    /\ pc[p] = "cache_write"
    /\ \E torn \in TornTexts(json_dump(frame[p].data)) :
           cache' = [cache EXCEPT ![frame[p].key] = NewFile(torn)]
    /\ hist' = [hist EXCEPT ![p].store_failed = TRUE]
    /\ pc' = [pc EXCEPT ![p] = "return_data"]
    /\ UNCHANGED <<rate_limit_per_minute, ttl_seconds, last_request_age,
                   frame, wake, issued, waited, calls>>

\* line 144: return data
ReturnData(p) ==
    /\ pc[p] = "return_data"
    /\ frame' = [frame EXCEPT ![p].outcome = "return", ![p].value = frame[p].data]
    /\ pc' = [pc EXCEPT ![p] = "done"]
    /\ UNCHANGED <<rate_limit_per_minute, ttl_seconds, last_request_age,
                   cache, wake, hist, issued, waited, calls>>

\* the caller has its answer and is free to call again
Finish(p) ==
    /\ pc[p] = "done"
    /\ pc' = [pc EXCEPT ![p] = "idle"]
    /\ frame' = [frame EXCEPT ![p] = NoFrame]
    /\ hist' = [hist EXCEPT ![p] = NoHist]
    /\ UNCHANGED <<rate_limit_per_minute, ttl_seconds, last_request_age,
                   cache, wake, issued, waited, calls>>

\* --------------- src/src/services/sofascore_service.py, SofaScoreService
\* SofaScoreService.__init__ of the services module: last_ts = 0; TTL and
\* RATE_LIMIT are constants of the module
InitSvc ==
    /\ rate_limit_per_minute = RATE_LIMIT
    /\ ttl_seconds = TTL
    /\ last_request_age = MinInterval
    /\ cache = [k \in Keys |-> NoFile]
    /\ pc = [p \in Callers |-> "idle"]
    /\ frame = [p \in Callers |-> NoFrame]
    /\ wake = [p \in Callers |-> 0]
    /\ hist = [p \in Callers |-> NoHist]
    /\ issued = NoEvent
    /\ waited = NoEvent
    /\ calls = 0

\* get_json(path, params), lines 72-74; the cache is always used
SvcBegin(p, r, gap) ==
    /\ pc[p] = "idle"
    /\ gap > 0 => \A q \in Callers : pc[q] = "idle"
    /\ calls' = calls + 1
    /\ last_request_age' = Later(last_request_age, gap, MinInterval)
    /\ cache' = CacheLater(cache, gap)
    /\ issued' = EventLater(issued, gap)
    /\ waited' = EventLater(waited, gap)
    /\ frame' = [frame EXCEPT ![p] =
                    [NoFrame EXCEPT !.request = r,
                                    !.url = SvcUrl(r.path),
                                    !.key = SvcKey(SvcUrl(r.path), r.params),
                                    !.use_cache = TRUE]]
    /\ hist' = [hist EXCEPT ![p] =
                    [NoHist EXCEPT !.cache0 = cache', !.ts0 = last_request_age']]
    /\ pc' = [pc EXCEPT ![p] = "cache_check"]
    /\ UNCHANGED <<rate_limit_per_minute, ttl_seconds, wake>>

\* "if cached:" of line 76
Truthy(value) == value \notin {PyNone, EmptyDict, JSONDecodeError}

\* _cache_get of the services module, lines 53-58: no try, so what
\* json.load raises goes up
svc_cache_get(key) ==
    LET file == cache[key] IN
    IF ~file.exists THEN PyNone
    ELSE IF file.age > TtlTicks THEN PyNone
         ELSE json_load(file.content)

\* get_json, lines 75-76
SvcCacheCheck(p) ==
    /\ pc[p] = "cache_check"
    /\ LET cached == svc_cache_get(frame[p].key) IN
       IF cached = JSONDecodeError
       THEN \* line 75 is outside the try of line 80
            /\ frame' = [frame EXCEPT ![p].outcome = "raise",
                                      ![p].value = JSONDecodeError]
            /\ pc' = [pc EXCEPT ![p] = "done"]
            /\ UNCHANGED hist
       ELSE IF Truthy(cached)
       THEN /\ frame' = [frame EXCEPT ![p].outcome = "return", ![p].value = cached]
            /\ hist' = [hist EXCEPT ![p].hit = TRUE]
            /\ pc' = [pc EXCEPT ![p] = "done"]
       ELSE /\ pc' = [pc EXCEPT ![p] = "rate_limit"]
            /\ UNCHANGED <<frame, hist>>
    /\ UNCHANGED <<rate_limit_per_minute, ttl_seconds, last_request_age,
                   cache, wake, issued, waited, calls>>

\* _rate_limit, lines 65-68: the time.sleep it takes
SvcRateLimit(p) ==
    /\ pc[p] = "rate_limit"
    /\ wake' = [wake EXCEPT ![p] = apply_rate_limit(last_request_age)]
    /\ hist' = [hist EXCEPT ![p].limited = @ + 1]
    /\ pc' = [pc EXCEPT ![p] = "limited"]
    /\ UNCHANGED <<rate_limit_per_minute, ttl_seconds, last_request_age,
                   cache, frame, issued, waited, calls>>

\* _rate_limit, line 69: last_ts = time.time(), and back in get_json
SvcRateLimitReturns(p) ==
    /\ pc[p] = "limited"
    /\ wake[p] = 0
    /\ last_request_age' = 0
    /\ waited' = EventAfter(waited, p, 0)
    /\ pc' = [pc EXCEPT ![p] = "loop"]
    /\ UNCHANGED <<rate_limit_per_minute, ttl_seconds,
                   cache, frame, wake, hist, issued, calls>>

\* get_json, lines 79-82: for attempt in range(1, MAX_RETRIES + 1), and
\* session.get is sent
SvcAttempt(p) ==
    /\ pc[p] = "loop"
    /\ wake[p] = 0
    /\ frame[p].try_count + 1 <= MAX_RETRIES
    /\ \E latency \in Latencies : wake' = [wake EXCEPT ![p] = latency]
    /\ frame' = [frame EXCEPT ![p].try_count = @ + 1]
    /\ issued' = EventAfter(issued, p, frame[p].try_count + 1)
    /\ pc' = [pc EXCEPT ![p] = "recv"]
    /\ UNCHANGED <<rate_limit_per_minute, ttl_seconds, last_request_age,
                   cache, hist, waited, calls>>

\* get_json, line 96: the range is used up
SvcExhausted(p) ==
    /\ pc[p] = "loop"
    /\ wake[p] = 0
    /\ frame[p].try_count + 1 > MAX_RETRIES
    /\ frame' = [frame EXCEPT ![p].outcome = "raise", ![p].value = "RuntimeError"]
    /\ pc' = [pc EXCEPT ![p] = "done"]
    /\ UNCHANGED <<rate_limit_per_minute, ttl_seconds, last_request_age,
                   cache, wake, hist, issued, waited, calls>>

\* time.sleep(BACKOFF ** attempt) of lines 89, 92 and 95, then the next
\* turn of the for loop
SvcBackoff(p) ==
    /\ wake' = [wake EXCEPT ![p] = Backoff(frame[p].try_count)]
    /\ pc' = [pc EXCEPT ![p] = "loop"]

\* get_json, lines 82-95: session.get has come back with o
SvcRespond(p, o) ==
    /\ pc[p] = "recv"
    /\ wake[p] = 0
    /\ IF ~o.exc /\ o.status_code = 200 /\ json_load(o.text) # JSONDecodeError
       THEN /\ frame' = [frame EXCEPT ![p].data = json_load(o.text),
                                      ![p].resp = o]
            /\ pc' = [pc EXCEPT ![p] = "cache_set"]
            /\ UNCHANGED <<hist, wake>>
       ELSE \* a status other than 200 (lines 87-92), or an exception of
            \* session.get or r.json() caught at line 93
            /\ SvcBackoff(p)
            /\ hist' = [hist EXCEPT ![p] = Noted(@, o, Backoff(frame[p].try_count))]
            /\ UNCHANGED frame
    /\ UNCHANGED <<rate_limit_per_minute, ttl_seconds, last_request_age,
                   cache, issued, waited, calls>>

\* _cache_set of the services module, line 61: open(path, "w")
SvcCacheSetOpen(p) ==
    /\ pc[p] = "cache_set"
    /\ cache' = [cache EXCEPT ![frame[p].key] = NewFile("")]
    /\ pc' = [pc EXCEPT ![p] = "cache_write"]
    /\ UNCHANGED <<rate_limit_per_minute, ttl_seconds, last_request_age,
                   frame, wake, hist, issued, waited, calls>>

\* _cache_set of the services module, line 62, and "return data" of line 86
SvcCacheSetWrite(p) ==
    /\ pc[p] = "cache_write"
    /\ cache' = [cache EXCEPT ![frame[p].key] = NewFile(json_dump(frame[p].data))]
    /\ frame' = [frame EXCEPT ![p].outcome = "return", ![p].value = frame[p].data]
    /\ pc' = [pc EXCEPT ![p] = "done"]
    /\ UNCHANGED <<rate_limit_per_minute, ttl_seconds, last_request_age,
                   wake, hist, issued, waited, calls>>

\* _cache_set of the services module has no try: what open() raises at
\* line 61 goes up into the try of get_json and is caught at line 93
SvcCacheSetOpenFails(p) ==
    /\ pc[p] = "cache_set"
    /\ SvcBackoff(p)
    /\ hist' = [hist EXCEPT ![p].store_failed = TRUE, ![p].sleeps = @ + 1,
                            ![p].delay = Backoff(frame[p].try_count)]
    /\ UNCHANGED <<rate_limit_per_minute, ttl_seconds, last_request_age,
                   cache, frame, issued, waited, calls>>

\* what json.dump or the close of the file raises at line 62 is caught at
\* line 93 as well; the file is left torn
SvcCacheSetWriteFails(p) ==
    /\ pc[p] = "cache_write"
    /\ \E torn \in TornTexts(json_dump(frame[p].data)) :
           cache' = [cache EXCEPT ![frame[p].key] = NewFile(torn)]
    /\ SvcBackoff(p)
    /\ hist' = [hist EXCEPT ![p].store_failed = TRUE, ![p].sleeps = @ + 1,
                            ![p].delay = Backoff(frame[p].try_count)]
    /\ UNCHANGED <<rate_limit_per_minute, ttl_seconds, last_request_age,
                   frame, issued, waited, calls>>

\* the caller of get_json has its answer and is free to call again
SvcFinish(p) ==
    /\ pc[p] = "done"
    /\ pc' = [pc EXCEPT ![p] = "idle"]
    /\ frame' = [frame EXCEPT ![p] = NoFrame]
    /\ hist' = [hist EXCEPT ![p] = NoHist]
    /\ UNCHANGED <<rate_limit_per_minute, ttl_seconds, last_request_age,
                   cache, wake, issued, waited, calls>>

\* the callers that sleep or wait for a response
Pending == {p \in Callers : wake[p] > 0}

\* the time until the first of them is due
NextDue == CHOOSE d \in {wake[p] : p \in Pending} : \A q \in Pending : d <= wake[q]

\* time passes until the first sleeper is due
TimePasses ==
    /\ Pending # {}
    /\ wake' = [p \in Callers |-> IF wake[p] > NextDue THEN wake[p] - NextDue ELSE 0]
    /\ last_request_age' = Later(last_request_age, NextDue, MinInterval)
    /\ cache' = CacheLater(cache, NextDue)
    /\ issued' = EventLater(issued, NextDue)
    /\ waited' = EventLater(waited, NextDue)
    /\ hist' = [p \in Callers |->
                    IF pc[p] = "idle" THEN hist[p] ELSE HistLater(hist[p], NextDue)]
    /\ UNCHANGED <<rate_limit_per_minute, ttl_seconds, pc, frame, calls>>

\* one step of caller p, which makes its calls from making, at most most of
\* them in all, with an upstream that answers from upstream
Step(p, making, most, upstream) ==
    \/ /\ calls < most
       /\ \E c \in making, gap \in Gaps : Begin(p, c.request, c.use_cache, gap)
    \/ CacheCheck(p)
    \/ ApplyRateLimit(p)
    \/ RateLimitReturns(p)
    \/ Attempt(p)
    \/ Exhausted(p)
    \/ \E o \in upstream : Respond(p, o)
    \/ CacheSetOpen(p)
    \/ CacheSetWrite(p)
    \/ ReturnData(p)
    \/ Finish(p)

\* one thread calls the service, one call after the other
Next == Step(MainCaller, Calls, MaxCalls, Outcomes) \/ TimePasses

Spec == Init /\ [][Next]_vars

\* a call under way takes its next step
Running(p) == pc[p] # "idle" /\ Step(p, Calls, MaxCalls, Outcomes)

\* one thread calls the service; the thread keeps running, time.sleep ends
\* and session.get (timeout=15) comes back
SpecLive ==
    /\ Init /\ [][Next]_vars
    /\ WF_vars(Running(MainCaller))
    /\ WF_vars(TimePasses)

\* one thread calls the service, with a cache directory whose files can
\* fail to be written
NextFs ==
    \/ Next
    \/ CacheSetOpenFails(MainCaller)
    \/ CacheSetWriteFails(MainCaller)

SpecFs == Init /\ [][NextFs]_vars

\* several threads share the instance and ask for the requests that try
\* _make_cache_key
NextKeys ==
    \/ \E p \in Callers : Step(p, KeyCalls, MaxConcCalls, KeyOutcomes)
    \/ TimePasses

SpecKeys == Init /\ [][NextKeys]_vars

\* the responses the upstream is let to give when line 139 is taken apart
RaceResponses ==
    {o \in Responses : o.status_code = 200 /\ o.text \in {"{}", "{\"events\":[]}"}}

\* several threads share the instance, and line 139 is two steps: the call
\* of time.time() and the assignment
NextRace ==
    \/ \E p \in Callers :
           \/ Step(p, ConcCalls, MaxConcCalls, {TransportFailure})
           \/ \E o \in RaceResponses : ClockRead(p, o)
           \/ StampStore(p)
    \/ TimePasses

SpecRace == Init /\ [][NextRace]_vars

\* the outcomes the upstream is let to produce when the calls of several
\* threads for one key are followed: a 204, and a 200 with a body
FlightOutcomes ==
    {o \in Responses :
        \/ o.status_code = 204
        \/ o.status_code = 200 /\ o.text = "{\"events\":[]}"}

\* the time between those calls: none, or enough for a stored entry to expire
FlightGaps == {0, TtlTicks + 1}

\* one thread calls get_json of the services module, one call after the
\* other, with a cache directory whose files can fail to be written
NextSvc ==
    \/ /\ calls < MaxCalls
       /\ \E r \in SvcRequests, gap \in Gaps : SvcBegin(MainCaller, r, gap)
    \/ SvcCacheCheck(MainCaller)
    \/ SvcRateLimit(MainCaller)
    \/ SvcRateLimitReturns(MainCaller)
    \/ SvcAttempt(MainCaller)
    \/ SvcExhausted(MainCaller)
    \/ \E o \in SvcOutcomes : SvcRespond(MainCaller, o)
    \/ SvcCacheSetOpen(MainCaller)
    \/ SvcCacheSetWrite(MainCaller)
    \/ SvcCacheSetOpenFails(MainCaller)
    \/ SvcCacheSetWriteFails(MainCaller)
    \/ SvcFinish(MainCaller)
    \/ TimePasses

SpecSvc == InitSvc /\ [][NextSvc]_vars

\* several threads share the instance and ask for the same request
NextFlight ==
    \/ \E p \in Callers :
           \/ /\ calls < MaxConcCalls
              /\ \E c \in ConcCalls, gap \in FlightGaps :
                     Begin(p, c.request, c.use_cache, gap)
           \/ CacheCheck(p)
           \/ ApplyRateLimit(p)
           \/ RateLimitReturns(p)
           \/ Attempt(p)
           \/ Exhausted(p)
           \/ \E o \in FlightOutcomes : Respond(p, o)
           \/ CacheSetOpen(p)
           \/ CacheSetWrite(p)
           \/ ReturnData(p)
           \/ Finish(p)
    \/ TimePasses

SpecFlight == Init /\ [][NextFlight]_vars

\* several threads share the instance
NextConc ==
    \/ \E p \in Callers : Step(p, ConcCalls, MaxConcCalls, ConcOutcomes)
    \/ TimePasses

SpecConc == Init /\ [][NextConc]_vars

\* ------------------------------------------------------------------ claims
Returned(p) == pc[p] = "done" /\ frame[p].outcome = "return"
Raised(p) == pc[p] = "done" /\ frame[p].outcome = "raise"

\* C1: once an attempt of a call has received a status other than 200, 429
\* and 503, the call has failed with the upstream (HTTP) error of that status
\* and makes no further attempt.
C1_FatalShortCircuit ==
    \A p \in Callers :
        hist[p].fatal => Raised(p) /\ frame[p].value = "HTTPError"

\* C2: a call never makes more than MAX_RETRIES attempts, and a call that
\* fails after attempts that all ended in a 429, a 503 or a transport failure
\* has made exactly MAX_RETRIES attempts and fails with the RuntimeError that
\* reports the exhausted retries.
C2_RetryCeiling ==
    \A p \in Callers :
        /\ frame[p].try_count <= MAX_RETRIES
        /\ Raised(p) /\ hist[p].only_retryable =>
               /\ frame[p].try_count = MAX_RETRIES
               /\ frame[p].value = "RuntimeError"

C2_Witness ==
    \E p \in Callers :
        /\ Raised(p) /\ hist[p].only_retryable
        /\ frame[p].try_count = MAX_RETRIES

\* C3: every session.get of the instance is sent at least min_interval after
\* the session.get before it.
C3_RequestSpacing == issued.by # 0 => issued.gap >= MinInterval

\* C4: _apply_rate_limit returns at least min_interval after it returned the
\* time before, and when it returns _last_request_ts is the time of the return.
C4_WaitSpacing == waited.by # 0 => waited.gap >= MinInterval
C4_WaitRecords ==
    \A p \in Callers :
        pc[p] = "loop" /\ frame[p].try_count = 0 /\ waited.age = 0 =>
            last_request_age = 0
C4_WaitContract == C4_WaitSpacing /\ C4_WaitRecords

\* C5: with several callers on one instance, a caller passes the limiter, and
\* sends a request, at least min_interval after another caller last did.
C5_ExclusiveAdmission ==
    /\ waited.by # 0 /\ waited.prev_by \notin {0, waited.by} =>
           waited.gap >= MinInterval
    /\ issued.by # 0 /\ issued.prev_by \notin {0, issued.by} =>
           issued.gap >= MinInterval

\* the calling thread is the only one at work
Alone(p) == \A q \in Callers \ {p} : pc[q] = "idle"

C7_CacheFreshness ==
    \A k \in Keys : \A v \in JsonValues :
        cache[k].exists /\ cache[k].content = json_dump(v) =>
            /\ cache[k].age <= TtlTicks => cache_get(k) = v
            /\ cache[k].age > TtlTicks => cache_get(k) = PyNone

C7_Witness ==
    \E p \in Callers :
        /\ hist[p].hit
        /\ cache[frame[p].key].age = TtlTicks
        /\ \E k \in Keys : cache[k].exists /\ cache[k].age > TtlTicks

\* C8: a call with use_cache goes on to the network only if its key has no
\* file, or a file that is no JSON document, or a file older than
\* ttl_seconds; otherwise it returns the file's payload without a request.
C8_MissOnlyAbsentCorruptStale ==
    \A p \in Callers :
        /\ pc[p] = "rate_limit" /\ frame[p].use_cache /\ Alone(p) =>
               \/ ~cache[frame[p].key].exists
               \/ cache[frame[p].key].age > TtlTicks
               \/ json_load(cache[frame[p].key].content) = JSONDecodeError
        /\ hist[p].hit /\ Alone(p) =>
               /\ frame[p].value = json_load(cache[frame[p].key].content)
               /\ frame[p].try_count = 0

\* C9: a call that fails leaves the cache files (which exist, what they hold,
\* when they were written) as it found them.
C9_FailureCachesNothing ==
    \A p \in Callers : Raised(p) /\ Alone(p) => cache = hist[p].cache0

C9_Witness ==
    \E p \in Callers :
        /\ Raised(p) /\ Alone(p) /\ frame[p].use_cache
        /\ cache[frame[p].key].exists

\* C10: a call that missed the cache and returns after k attempts that ended
\* in a 429, a 503 or a transport failure has made k + 1 attempts (at most
\* MAX_RETRIES) and slept k times, returns the body of the 200 response, and
\* with use_cache leaves a file under its key that holds that body.
C10_Recovery ==
    \A p \in Callers :
        Returned(p) /\ ~hist[p].hit /\ hist[p].only_retryable /\ Alone(p) =>
            /\ frame[p].try_count = hist[p].sleeps + 1
            /\ frame[p].try_count <= MAX_RETRIES
            /\ frame[p].resp.status_code = 200
            /\ frame[p].value = json_load(frame[p].resp.text)
            /\ frame[p].use_cache =>
                   /\ cache[frame[p].key].exists
                   /\ json_load(cache[frame[p].key].content)
                          = json_load(frame[p].resp.text)

C10_Witness ==
    \E p \in Callers :
        /\ Returned(p) /\ ~hist[p].hit /\ hist[p].only_retryable /\ Alone(p)
        /\ frame[p].use_cache
        /\ hist[p].sleeps = 1
        /\ frame[p].resp.text = "{\"events\":[]}"

\* C11: when attempt n + 1 of a call has been sent, the call has slept once
\* since attempt n came back, for BACKOFF_FACTOR ** n seconds, whatever
\* attempt n came back with; and the delays BACKOFF_FACTOR ** n do not
\* decrease with n.
C11_BackoffSchedule ==
    /\ \A p \in Callers :
           pc[p] = "recv" /\ frame[p].try_count >= 2 =>
               hist[p].delay = Backoff(frame[p].try_count - 1)
    /\ \A n \in 1 .. MAX_RETRIES - 1 : Backoff(n) <= Backoff(n + 1)

\* C12: a call whose _cache_set has failed, at open() or part of the way
\* through the write, goes on to return the parsed body of its 200 response
\* and raises nothing.
C12_StoreFailureSwallowed ==
    \A p \in Callers :
        hist[p].store_failed =>
            /\ pc[p] \in {"return_data", "done"}
            /\ frame[p].resp.status_code = 200
            /\ frame[p].data = json_load(frame[p].resp.text)
            /\ pc[p] = "done" =>
                   /\ Returned(p)
                   /\ frame[p].value = json_load(frame[p].resp.text)

C12_Witness ==
    \E p \in Callers :
        /\ Returned(p) /\ hist[p].store_failed
        /\ cache[frame[p].key].exists
        /\ cache[frame[p].key].content = "{\n  \"events\""
        /\ frame[p].value = EventsDict

\* the file exists and holds no JSON document
Corrupt(file) == file.exists /\ json_load(file.content) = JSONDecodeError

\* C13: _cache_get gives None for a file that holds no JSON document, and a
\* call with use_cache that finds such a file under its key goes on to
\* _apply_rate_limit with nothing raised and nothing changed, as it does
\* when there is no file.
C13_CorruptIsMiss ==
    /\ [](\A k \in Keys : Corrupt(cache[k]) => cache_get(k) = PyNone)
    /\ [][\A p \in Callers :
             /\ pc[p] = "cache_check" /\ frame[p].use_cache
             /\ Corrupt(cache[frame[p].key])
             /\ pc'[p] # pc[p]
             => /\ pc'[p] = "rate_limit"
                /\ frame'[p] = frame[p] /\ hist'[p] = hist[p]
                /\ cache' = cache /\ last_request_age' = last_request_age]_vars

C13_Witness ==
    \E p \in Callers :
        /\ pc[p] = "rate_limit" /\ frame[p].use_cache
        /\ Corrupt(cache[frame[p].key])
        /\ cache[frame[p].key].age <= TtlTicks

\* C14: the file a caller's _cache_get is about to read is either absent or
\* the whole dump of a payload, also while another caller's _cache_set for
\* the same key is under way.
C14_AtomicStore ==
    \A p \in Callers :
        pc[p] = "cache_check" /\ frame[p].use_cache =>
            \/ ~cache[frame[p].key].exists
            \/ \E v \in JsonValues : cache[frame[p].key].content = json_dump(v)

\* C15: a call never makes more than MAX_RETRIES attempts, and every call
\* that has begun comes to its end, returning or raising, whatever the cache
\* holds and whatever the upstream answers.
C15_Termination ==
    /\ [](\A p \in Callers : frame[p].try_count <= MAX_RETRIES)
    /\ \A p \in Callers : (pc[p] # "idle") ~> (pc[p] = "done")

C15_Witness ==
    \E p \in Callers :
        /\ Returned(p) /\ ~hist[p].hit
        /\ frame[p].try_count = MAX_RETRIES
        /\ hist[p].sleeps = MAX_RETRIES - 1

\* the items of a dict, whatever their insertion order
ItemSet(params) == {params[i] : i \in 1 .. Len(params)}
\* the insertion orders of the same items
Orderings(params) ==
    {q \in [1 .. Len(params) -> ItemSet(params)] : ItemSet(q) = ItemSet(params)}

\* C16: the key of a call is the key _make_cache_key gives for its url with
\* its parameters in any other insertion order, and the key it gives when
\* it is computed again from the same path and parameters.
C16_KeyDeterminism ==
    \A p \in Callers :
        pc[p] # "idle" =>
            /\ \A q \in Orderings(frame[p].request.params) :
                   frame[p].key = make_cache_key(frame[p].url, q)
            /\ frame[p].key = make_cache_key(ResolveUrl(frame[p].request.path),
                                             frame[p].request.params)

C16_Witness ==
    \E p \in Callers :
        /\ hist[p].hit
        /\ frame[p].request.params = << <<"b", "2">>, <<"a", "1">> >>
        /\ frame[p].key = make_cache_key(frame[p].url, << <<"a", "1">>, <<"b", "2">> >>)

\* the two requests are for different urls, or both have parameters and
\* not the same ones
Differ(r1, r2) ==
    \/ ResolveUrl(r1.path) # ResolveUrl(r2.path)
    \/ /\ r1.params # NoParams /\ r2.params # NoParams
       /\ ItemSet(r1.params) # ItemSet(r2.params)

\* C17: two calls under way whose requests differ in the resolved url, or in
\* their parameters, have different texts hashed by _make_cache_key, and so
\* different keys.
C17_KeyDistinctness ==
    \A p, q \in Callers :
        pc[p] # "idle" /\ pc[q] # "idle"
        /\ Differ(frame[p].request, frame[q].request) =>
            /\ HashedText(frame[p].url, frame[p].request.params)
                   # HashedText(frame[q].url, frame[q].request.params)
            /\ frame[p].key # frame[q].key

\* C18: a call with use_cache false is never answered from the cache and
\* never in _cache_set; when it returns it has been through the limiter
\* once and has sent a request, returns the body of its 200 response, and
\* has left the cache files as it found them.
C18_NoCacheBypass ==
    \A p \in Callers :
        pc[p] # "idle" /\ ~frame[p].use_cache =>
            /\ ~hist[p].hit
            /\ pc[p] \notin {"cache_set", "cache_write"}
            /\ Returned(p) /\ Alone(p) =>
                   /\ hist[p].limited = 1
                   /\ frame[p].try_count >= 1
                   /\ frame[p].resp.status_code = 200
                   /\ frame[p].value = json_load(frame[p].resp.text)
                   /\ cache = hist[p].cache0

C18_Witness ==
    \E p \in Callers :
        /\ Returned(p) /\ ~frame[p].use_cache
        /\ cache_get(frame[p].key) = EmptyDict
        /\ frame[p].value = EventsDict

\* the file exists and is older than ttl_seconds
Stale(file) == file.exists /\ file.age > TtlTicks

\* C19: _cache_get gives None for a file older than ttl_seconds, and such a
\* file stays as it is, through the cache check of a call too, until a
\* _cache_set for its key opens it.
C19_StaleLookupPure ==
    /\ [](\A k \in Keys : Stale(cache[k]) => cache_get(k) = PyNone)
    /\ [][\A k \in Keys :
             Stale(cache[k]) =>
                 \/ cache'[k] = cache[k]
                 \/ \E p \in Callers :
                        /\ pc[p] = "cache_set" /\ frame[p].key = k
                        /\ pc'[p] = "cache_write"]_vars

C19_Witness ==
    \E p \in Callers :
        /\ pc[p] = "rate_limit" /\ frame[p].use_cache
        /\ Stale(cache[frame[p].key])
        /\ cache[frame[p].key].content = json_dump(EventsDict)

\* C20: a call sleeps only after an attempt before the last, and a call
\* that fails after attempts that all ended in a 429, a 503 or a transport
\* failure has slept MAX_RETRIES - 1 times.
C20_NoSleepAfterLastAttempt ==
    \A p \in Callers :
        /\ pc[p] = "loop" /\ wake[p] > 0 => frame[p].try_count < MAX_RETRIES
        /\ Raised(p) /\ hist[p].only_retryable =>
               hist[p].sleeps = MAX_RETRIES - 1

\* C21: no assignment to _last_request_ts puts an earlier time there than
\* the one it holds, whichever way the threads of the instance interleave.
C21_TimestampMonotonic ==
    [][\A p \in Callers :
          pc[p] = "stamp" /\ pc'[p] # "stamp" =>
              last_request_age' <= last_request_age]_vars

\* C22: a caller that missed the cache is never held back from sending its
\* own request by another caller's request for the same key; a caller that
\* goes on from a 200 response goes on with the body of its own response,
\* and its _cache_set leaves that body in the file of its key.
C22_NoSingleFlight ==
    /\ [](\A p \in Callers :
             /\ pc[p] = "loop" /\ wake[p] = 0 /\ LoopTest(frame[p].try_count)
                    => ENABLED Attempt(p)
             /\ pc[p] \in {"cache_set", "cache_write", "return_data"} =>
                    /\ frame[p].try_count >= 1
                    /\ frame[p].resp.status_code = 200
                    /\ frame[p].data = json_load(frame[p].resp.text))
    /\ [][\A p \in Callers :
             pc[p] = "cache_write" /\ pc'[p] = "return_data" =>
                 cache'[frame[p].key] = NewFile(json_dump(frame[p].data))]_vars

C22_Witness ==
    \E p, q \in Callers :
        /\ p # q
        /\ pc[p] = "recv" /\ pc[q] = "recv"
        /\ frame[p].key = frame[q].key
        /\ frame[p].use_cache /\ frame[q].use_cache
        /\ cache_get(frame[p].key) = PyNone

\* C23: in get_json of the services module, a call that finds a file that
\* holds no JSON document under its key goes on to _rate_limit with nothing
\* raised, and a call whose _cache_set has failed returns the body of its
\* 200 response without a further attempt.
C23_SvcCacheFailuresNotFatal ==
    /\ [](\A p \in Callers :
             hist[p].store_failed =>
                 /\ pc[p] = "done" /\ frame[p].outcome = "return"
                 /\ frame[p].value = json_load(frame[p].resp.text))
    /\ [][\A p \in Callers :
             /\ pc[p] = "cache_check"
             /\ Corrupt(cache[frame[p].key])
             /\ cache[frame[p].key].age <= TtlTicks
             /\ pc'[p] # pc[p]
             => pc'[p] = "rate_limit"]_vars

\* C24: the cache has one file for a key, and the file of a key holds the
\* payload and the time of the last call that fetched that key from the
\* upstream with use_cache: such a call returns with the file of its key just
\* written with its payload, whatever file was there before, and between two
\* such writes the file of a key keeps its content and only grows older.
C24_CacheContent ==
    /\ [](\A p \in Callers :
             Returned(p) /\ ~hist[p].hit /\ frame[p].use_cache =>
                 cache[frame[p].key] = NewFile(json_dump(frame[p].value)))
    /\ [][\A k \in Keys :
             \/ cache'[k] = cache[k]
             \/ /\ cache[k].exists /\ cache'[k].exists
                /\ cache'[k].content = cache[k].content
                /\ cache'[k].age >= cache[k].age
             \/ \E p \in Callers :
                    /\ frame[p].key = k /\ frame[p].use_cache
                    /\ frame[p].resp.status_code = 200
                    /\ \/ pc[p] = "cache_set" /\ pc'[p] = "cache_write"
                       \/ /\ pc[p] = "cache_write" /\ pc'[p] = "return_data"
                          /\ cache'[k] = NewFile(json_dump(frame[p].data))]_vars

\* a call has fetched its key from the upstream and returned, where the call
\* had found an expired file with another payload under the key
C24_Witness ==
    \E p \in Callers :
        /\ Returned(p) /\ ~hist[p].hit /\ frame[p].use_cache
        /\ Stale(hist[p].cache0[frame[p].key])
        /\ hist[p].cache0[frame[p].key].content # json_dump(frame[p].value)
        /\ \E k \in Keys \ {frame[p].key} : cache[k].exists
        /\ cache[frame[p].key] = NewFile(json_dump(frame[p].value))

====
